---- MODULE Spec2Model ----
(***************************************************************************)
(* gprofile2: statistical sampling of strong gravitational lensing.        *)
(*                                                                         *)
(* The module models six parts of the repository, each with its own        *)
(* specification over one shared set of variables:                         *)
(*   SpecSampler   gprofile2.py: random.seed, disp_bins, gen_disp          *)
(*   Spec/SpecLive gprofile2.py: the trial loop of main()                  *)
(*   SpecAgg       analyzer.py:  load_dat and process_dat                  *)
(*   SpecEllip     gen_ellip of gprofile2.py and of generator.py           *)
(*   SpecSplit     splitter.py                                             *)
(*   SpecGen       generator.py: disp_bins, gen_disp, the loop of main()   *)
(*                                                                         *)
(* Numbers.  The program computes in binary floating point.  The model     *)
(* computes exactly: a float is an integer, or a pair <<n, d>> (d > 0)      *)
(* standing for the fraction n/d.  Sequences are 1-based: index i of the   *)
(* model is index i-1 of the Python list.                                  *)
(***************************************************************************)
EXTENDS Integers, Sequences, FiniteSets, TLC

VARIABLES
    \* --- gprofile2.py, Distribution Sampler ---
    num_bins,      \* number of dispersion bins (15 in the source)
    density,       \* density[i]: value of phi_loc at the left bound of bin i
    seed,          \* sys.argv[3]
    rng,           \* state of the `random` module's stream
    s_pc,          \* position of the sampler run
    left_bounds,   \* global list left_bounds
    freqs,         \* global list freqs (cumulative table after disp_bins)
    draws,         \* values returned by gen_disp in this run, in order
    prev_draws,    \* values returned by gen_disp in the previous run
    run,           \* 1 for the first run of the process, 2 for the repeat
    \* --- gprofile2.py, Trial Driver (main) ---
    num_samp,      \* sys.argv[2]
    pc,            \* position in main()
    i,             \* completed iterations of `for i in range(0, num_samp)`
    good_run,      \* local good_run
    trials,        \* global trials
    dat,           \* global dat
    config_file,   \* TRUE while case.input exists
    dat_file,      \* rows of out_point.dat, <<>> while it does not exist
    accepted,      \* history: attempts for which check_mult() returned True
    rejected,      \* history: attempts for which check_mult() returned False
    succ_percent,  \* global succ_percent
    raw_data,      \* what save_dat() wrote to raw_data.npy
    \* --- analyzer.py ---
    folder,        \* contents of the .npy files of the folder, as a list
    an_dat,        \* global dat of analyzer.py
    an_pc,         \* position of analyzer.py's main()
    num_images, total_mag, pair_mags, pair_delays,
    image_delays, image_mags, min_delays,
    percent_below, \* CDF list of process_dat
    global_stats,  \* the three lines of global_stats.dat
    \* --- gen_ellip ---
    e_pc,          \* e_pc[g]: position of generator g
    ellip,         \* ellip[g]: local ellip of generator g
    \* --- splitter.py ---
    list_file,     \* lines of the galaxy list sys.argv[1]
    num_out,       \* sys.argv[2]
    sp_pc,         \* position of the script
    gals,          \* list gals
    master_folder, \* TRUE when the folder GAL_SET___... exists
    out_files,     \* out_files[k]: lines of the output file numbered k - 1
    \* --- generator.py ---
    g_num_gals,    \* num_gals, int(sys.argv[1])
    g_density,     \* g_density[i]: value of phi_loc at the left bound of bin i
    g_pc,          \* position of generator.py's main()
    g_freqs,       \* global list freqs of generator.py
    disp_list,     \* global list disp_list
    current_disp,  \* global current_disp
    g_returned     \* history: <<position read, value>> of every gen_disp()

samplerVars == <<num_bins, density, seed, rng, s_pc, left_bounds, freqs,
                 draws, prev_draws, run>>
driverVars  == <<num_samp, pc, i, good_run, trials, dat, config_file,
                 dat_file, accepted, rejected, succ_percent, raw_data>>
aggVars     == <<folder, an_dat, an_pc, num_images, total_mag, pair_mags,
                 pair_delays, image_delays, image_mags, min_delays,
                 percent_below, global_stats>>
ellipVars   == <<e_pc, ellip>>
splitVars   == <<list_file, num_out, sp_pc, gals, master_folder,
                 out_files>>
genVars     == <<g_num_gals, g_density, g_pc, g_freqs, disp_list,
                 current_disp, g_returned>>
vars        == <<samplerVars, driverVars, aggVars, ellipVars, splitVars,
                 genVars>>

-----------------------------------------------------------------------------
(* Exact arithmetic on fractions <<n, d>>, d > 0.                          *)

Abs(x) == IF x < 0 THEN -x ELSE x

Min(a, b) == IF a <= b THEN a ELSE b

RECURSIVE GCD(_, _)
GCD(a, b) == IF b = 0 THEN a ELSE GCD(b, a % b)

Norm(q) ==
    LET g == GCD(Abs(q[1]), q[2])
    IN  <<q[1] \div g, q[2] \div g>>

RAdd(a, b) == Norm(<<a[1] * b[2] + b[1] * a[2], a[2] * b[2]>>)
RMul(a, b) == Norm(<<a[1] * b[1], a[2] * b[2]>>)
RLeq(a, b) == a[1] * b[2] <= b[1] * a[2]
RLt(a, b)  == a[1] * b[2] < b[1] * a[2]
REq(a, b)  == a[1] * b[2] = b[1] * a[2]

RECURSIVE SumSeq(_)
SumSeq(s) == IF s = <<>> THEN 0 ELSE s[1] + SumSeq(Tail(s))

-----------------------------------------------------------------------------
(* Distribution Sampler: gprofile2.py, random.seed / disp_bins / gen_disp  *)

MaxBins  == 3      \* bin counts 1..MaxBins are explored
MaxDraws == 3      \* gen_disp calls per run
PrngMod  == 8      \* the modelled stream has PrngMod states
Densities == {1, 2, 3}   \* values of phi_loc, in an arbitrary unit
Seeds     == {0, 1, 2}   \* values of the seed argument
Entropy   == {0, 5}      \* stream states a fresh process may start in

sigma_min == 75
sigma_max == 375

\* bin_size = (sigma_max - sigma_min) / num_bins
bin_size == Norm(<<sigma_max - sigma_min, num_bins>>)

SeedRngIgnored(sd, old) == old

\* random.seed(seed): the stream state becomes a function of the seed alone.
SeedRng(sd, old) == sd % PrngMod

\* One step of the stream; random.random() returns the new state / PrngMod,
\* a number in [0, 1).
NextRng(s) == (5 * s + 3) % PrngMod
Random(s) == <<NextRng(s), PrngMod>>

\* random.uniform(a, b) = a + (b - a) * random.random()
Uniform(a, b, s) == RAdd(a, RMul(RAdd(b, <<-a[1], a[2]>>), Random(s)))

\* lines 247-252: the left bound and the density of every bin
LeftBounds(n) ==
    [k \in 1..n |-> RAdd(<<sigma_min, 1>>, RMul(<<k - 1, 1>>, bin_size))]

RawFreqs(d) == [k \in 1..Len(d) |-> <<d[k], 1>>]

RECURSIVE CumLoopNoCarry(_, _, _)
CumLoopNoCarry(f, k, correction) ==
    IF k > Len(f) - 1 THEN f
    ELSE CumLoopNoCarry([f EXCEPT ![k] = RMul(f[k], correction)],
                        k + 1, correction)

\* lines 257-258: for i in range(1, len(freqs) - 1)
RECURSIVE CumLoop(_, _, _)
CumLoop(f, k, correction) ==
    IF k > Len(f) - 1 THEN f
    ELSE CumLoop([f EXCEPT ![k] = RAdd(RMul(f[k], correction), f[k - 1])],
                 k + 1, correction)

\* line 259: freqs[-1] = 1
SetLast(f) == [f EXCEPT ![Len(f)] = <<1, 1>>]

\* lines 254-259 of disp_bins
CumTable(d) ==
    LET total_freq == SumSeq(d)
        correction == <<1, total_freq>>
        f0 == RawFreqs(d)
        f1 == [f0 EXCEPT ![1] = RMul(f0[1], correction)]
    IN  SetLast(CumLoop(f1, 2, correction))

RECURSIVE FirstBinNoBreak(_, _, _)
FirstBinNoBreak(f, u, k) ==
    IF k > Len(f) THEN 0
    ELSE LET rest == FirstBinNoBreak(f, u, k + 1)
         IN  IF rest # 0 THEN rest
             ELSE IF RLeq(u, f[k]) THEN k ELSE 0

RECURSIVE FirstBinSkipsLast(_, _, _)
FirstBinSkipsLast(f, u, k) ==
    IF k > Len(f) - 1 THEN 0
    ELSE IF RLeq(u, f[k]) THEN k
    ELSE FirstBinSkipsLast(f, u, k + 1)

\* line 297-300 of gen_disp: the first bin with bin_selector <= freqs[i],
\* 0 when the loop ends without one
RECURSIVE FirstBin(_, _, _)
FirstBin(f, u, k) ==
    IF k > Len(f) THEN 0
    ELSE IF RLeq(u, f[k]) THEN k
    ELSE FirstBin(f, u, k + 1)

SamplerInit ==
    /\ num_bins \in 1..MaxBins
    /\ density \in [1..num_bins -> Densities]
    /\ seed \in Seeds
    /\ rng \in Entropy
    /\ s_pc = "seed"
    /\ left_bounds = <<>>
    /\ freqs = <<>>
    /\ draws = <<>>
    /\ prev_draws = <<>>
    /\ run = 1

SamplerIdle ==
    /\ num_bins = 1
    /\ density = <<1>>
    /\ seed = 0
    /\ rng = 0
    /\ s_pc = "off"
    /\ left_bounds = <<>>
    /\ freqs = <<>>
    /\ draws = <<>>
    /\ prev_draws = <<>>
    /\ run = 1

\* main(), line 158: random.seed(seed)
Seed ==
    /\ s_pc = "seed"
    /\ rng' = SeedRng(seed, rng)
    /\ s_pc' = "disp_bins"
    /\ UNCHANGED <<num_bins, density, seed, left_bounds, freqs, draws,
                   prev_draws, run>>
    /\ UNCHANGED <<driverVars, aggVars, ellipVars, splitVars, genVars>>

\* main(), line 159: disp_bins()
DispBins ==
    /\ s_pc = "disp_bins"
    /\ left_bounds' = left_bounds \o LeftBounds(num_bins)
    /\ freqs' = CumTable(freqs \o density)
    /\ s_pc' = "gen_disp"
    /\ UNCHANGED <<num_bins, density, seed, rng, draws, prev_draws, run>>
    /\ UNCHANGED <<driverVars, aggVars, ellipVars, splitVars, genVars>>

\* gen_disp(), lines 294-301
GenDisp ==
    /\ s_pc = "gen_disp"
    /\ Len(draws) < MaxDraws
    /\ LET bin_selector == Random(rng)
           r1 == NextRng(rng)
           k  == FirstBin(freqs, bin_selector, 1)
       IN  IF k = 0
           THEN /\ draws' = Append(draws, <<0, 1>>)
                /\ rng' = r1
           ELSE /\ draws' = Append(draws,
                        Uniform(left_bounds[k],
                                RAdd(left_bounds[k], bin_size), r1))
                /\ rng' = NextRng(r1)
    /\ UNCHANGED <<num_bins, density, seed, s_pc, left_bounds, freqs,
                   prev_draws, run>>
    /\ UNCHANGED <<driverVars, aggVars, ellipVars, splitVars, genVars>>

\* The process ends and the program is started again with the same
\* arguments: module globals are fresh, the stream starts in a state the
\* operating system picks.
Rerun ==
    /\ s_pc = "gen_disp"
    /\ run = 1
    /\ run' = 2
    /\ prev_draws' = draws
    /\ draws' = <<>>
    /\ left_bounds' = <<>>
    /\ freqs' = <<>>
    /\ rng' \in Entropy
    /\ s_pc' = "seed"
    /\ UNCHANGED <<num_bins, density, seed>>
    /\ UNCHANGED <<driverVars, aggVars, ellipVars, splitVars, genVars>>

-----------------------------------------------------------------------------
(* Trial Driver: gprofile2.py, main() lines 161-226 with run_glafic,       *)
(* check_mult, write_dat and save_dat.                                     *)
(* The solver glafic is a black box: every invocation exits with status 0  *)
(* and leaves out_point.dat holding a header row (image count, zsrc, x, y) *)
(* followed by one row (x, y, magnification, time delay) per image.        *)

MaxSamp    == 3    \* requested sample counts 0..MaxSamp are explored
MaxRejects == 3    \* attempts the solver may answer with fewer than 2 images
MaxImages  == 3    \* image counts 0..MaxImages of one solver output

zsrc == 3

\* out_point.dat as glafic writes it for n images
SolverTable(n) ==
    <<<<n, zsrc, 0, 0>>>> \o [k \in 1..n |-> <<0, 0, 1, k - 1>>]

\* np.loadtxt: a file of one row loads as a 1-D array of its 4 numbers,
\* a file of several rows as a 2-D array
LoadTxt(rows) ==
    IF Len(rows) = 1 THEN [ndim |-> 1, data |-> rows[1]]
    ELSE [ndim |-> 2, data |-> rows]

\* output.shape != (4,)
ShapeIsNot4(output) == ~(output.ndim = 1 /\ Len(output.data) = 4)

check_mult_accepts_one(rows) ==
    LET output == LoadTxt(rows)
    IN  ShapeIsNot4(output) /\ output.data[1][1] >= 1

check_mult_zero_images(rows) == rows[1][1] # 1

\* check_mult(), lines 412-418
check_mult(rows) ==
    LET output == LoadTxt(rows)
    IN  ShapeIsNot4(output) /\ output.data[1][1] > 1

DriverInit ==
    /\ num_samp \in 0..MaxSamp
    /\ pc = "for"
    /\ i = 0
    /\ good_run = FALSE
    /\ trials = 0
    /\ dat = <<>>
    /\ config_file = FALSE
    /\ dat_file = <<>>
    /\ accepted = 0
    /\ rejected = 0
    /\ succ_percent = <<0, 1>>
    /\ raw_data = <<>>

DriverIdle ==
    /\ num_samp = 0
    /\ pc = "off"
    /\ i = 0
    /\ good_run = FALSE
    /\ trials = 0
    /\ dat = <<>>
    /\ config_file = FALSE
    /\ dat_file = <<>>
    /\ accepted = 0
    /\ rejected = 0
    /\ succ_percent = <<0, 1>>
    /\ raw_data = <<>>

\* line 171: range(0, num_samp) yields another index after k iterations
InRangeOffByOne(k, n) == k <= n

InRange(k, n) == k < n

\* lines 171-172: for i in range(0, num_samp): good_run = False
ForNext ==
    /\ pc = "for"
    /\ IF InRange(i, num_samp)
       THEN good_run' = FALSE /\ pc' = "while"
       ELSE good_run' = good_run /\ pc' = "stats"
    /\ UNCHANGED <<num_samp, i, trials, dat, config_file, dat_file, accepted,
                   rejected, succ_percent, raw_data>>
    /\ UNCHANGED <<samplerVars, aggVars, ellipVars, splitVars, genVars>>

\* line 173: while good_run == False
WhileTest ==
    /\ pc = "while"
    /\ pc' = IF good_run = FALSE THEN "attempt" ELSE "write_dat"
    /\ UNCHANGED <<num_samp, i, good_run, trials, dat, config_file, dat_file,
                   accepted, rejected, succ_percent, raw_data>>
    /\ UNCHANGED <<samplerVars, aggVars, ellipVars, splitVars, genVars>>

\* lines 174-201: trials += 1 and case.input is (over)written
Attempt ==
    /\ pc = "attempt"
    /\ trials' = trials + 1
    /\ config_file' = TRUE
    /\ pc' = "run_glafic"
    /\ UNCHANGED <<num_samp, i, good_run, dat, dat_file, accepted, rejected,
                   succ_percent, raw_data>>
    /\ UNCHANGED <<samplerVars, aggVars, ellipVars, splitVars, genVars>>

\* line 203, run_glafic(): the solver reports more than one image
RunGlaficMulti ==
    /\ pc = "run_glafic"
    /\ \E n \in 2..MaxImages : dat_file' = SolverTable(n)
    /\ pc' = "check_mult"
    /\ UNCHANGED <<num_samp, i, good_run, trials, dat, config_file, accepted,
                   rejected, succ_percent, raw_data>>
    /\ UNCHANGED <<samplerVars, aggVars, ellipVars, splitVars, genVars>>

\* line 203, run_glafic(): the solver reports no image or one image
RunGlaficSingle ==
    /\ pc = "run_glafic"
    /\ rejected < MaxRejects
    /\ \E n \in 0..1 : dat_file' = SolverTable(n)
    /\ pc' = "check_mult"
    /\ UNCHANGED <<num_samp, i, good_run, trials, dat, config_file, accepted,
                   rejected, succ_percent, raw_data>>
    /\ UNCHANGED <<samplerVars, aggVars, ellipVars, splitVars, genVars>>

\* lines 206-207: if check_mult(): good_run = True
CheckMult ==
    /\ pc = "check_mult"
    /\ IF check_mult(dat_file)
       THEN good_run' = TRUE /\ accepted' = accepted + 1
            /\ rejected' = rejected
       ELSE good_run' = good_run /\ accepted' = accepted
            /\ rejected' = rejected + 1
    /\ pc' = "while"
    /\ UNCHANGED <<num_samp, i, trials, dat, config_file, dat_file,
                   succ_percent, raw_data>>
    /\ UNCHANGED <<samplerVars, aggVars, ellipVars, splitVars, genVars>>

\* write_dat(), lines 426-428
write_dat(d, rows) == Append(d, LoadTxt(rows))

\* lines 210-211, then the next iteration of the for loop
WriteDat ==
    /\ pc = "write_dat"
    /\ dat' = write_dat(dat, dat_file)
    /\ i' = i + 1
    /\ pc' = "for"
    /\ UNCHANGED <<num_samp, good_run, trials, config_file, dat_file,
                   accepted, rejected, succ_percent, raw_data>>
    /\ UNCHANGED <<samplerVars, aggVars, ellipVars, splitVars, genVars>>

\* line 215: succ_percent = round(100 * num_samp / trials, 2); the division
\* raises ZeroDivisionError when trials is 0.  The model keeps the exact
\* quotient.
Stats ==
    /\ pc = "stats"
    /\ IF trials = 0
       THEN pc' = "ZeroDivisionError" /\ succ_percent' = succ_percent
       ELSE pc' = "remove" /\ succ_percent' = Norm(<<100 * num_samp, trials>>)
    /\ UNCHANGED <<num_samp, i, good_run, trials, dat, config_file, dat_file,
                   accepted, rejected, raw_data>>
    /\ UNCHANGED <<samplerVars, aggVars, ellipVars, splitVars, genVars>>

RemoveConfigOnly ==
    /\ pc = "remove"
    /\ config_file' = FALSE
    /\ pc' = "save_dat"
    /\ UNCHANGED <<num_samp, i, good_run, trials, dat, dat_file, accepted,
                   rejected, succ_percent, raw_data>>
    /\ UNCHANGED <<samplerVars, aggVars, ellipVars, splitVars, genVars>>

\* lines 218-219: os.remove(config_file); os.remove(dat_file)
Remove ==
    /\ pc = "remove"
    /\ config_file' = FALSE
    /\ dat_file' = <<>>
    /\ pc' = "save_dat"
    /\ UNCHANGED <<num_samp, i, good_run, trials, dat, accepted, rejected,
                   succ_percent, raw_data>>
    /\ UNCHANGED <<samplerVars, aggVars, ellipVars, splitVars, genVars>>

\* line 226, save_dat(): np.save('raw_data', dat)
SaveDat ==
    /\ pc = "save_dat"
    /\ raw_data' = dat
    /\ pc' = "done"
    /\ UNCHANGED <<num_samp, i, good_run, trials, dat, config_file, dat_file,
                   accepted, rejected, succ_percent>>
    /\ UNCHANGED <<samplerVars, aggVars, ellipVars, splitVars, genVars>>

\* The Trial Driver is Complete when main() has left the loop, computed the
\* run statistics and handed the collection over to save_dat.
Complete == pc = "done"

-----------------------------------------------------------------------------
(* Aggregator and Reporter: analyzer.py, load_dat and process_dat.         *)
(* process_dat indexes its input as dat[i][j][k][l]: dat[i] is one element *)
(* of a loaded .npy array and holds samples; a sample dat[i][j] is a list  *)
(* of rows, row 0 the header (image count first), rows 1.. one per image   *)
(* as (x, y, magnification, time delay).                                   *)
(* Magnifications are in units of 0.5 and are never 0: the solver reports  *)
(* 1/det of the lens mapping.  Time delays are in days.                    *)

MaxTotalImages == 6                  \* image rows in the whole folder
MaxImgs == 3                         \* image rows of one sample
MaxSamples == MaxTotalImages \div 2  \* samples in the whole folder
MaxDay == 30                         \* for i in range(1, 31)

\* image rows (x, y, magnification, time delay) the solver may have written
ImageRows == {<<0, 0, -4, 5>>, <<0, 0, 1, 12>>, <<0, 0, 2, 5>>}

\* the samples of the input, flattened in the order process_dat visits them
RECURSIVE Flatten(_)
Flatten(d) == IF d = <<>> THEN <<>> ELSE d[1] \o Flatten(Tail(d))

NumImageRows(sample) == Len(sample) - 1

TotalImageRows(d) ==
    LET f == Flatten(d)
    IN  SumSeq([n \in 1..Len(f) |-> NumImageRows(f[n])])

MagRatioRecordOrder(ktime, kmag, ltime, lmag) == <<Abs(kmag), Abs(lmag)>>

MagRatioTieEarlier(ktime, kmag, ltime, lmag) ==
    IF ktime <= ltime
    THEN <<Abs(kmag), Abs(lmag)>>
    ELSE <<Abs(lmag), Abs(kmag)>>

\* lines 143-147: the pair's magnification ratio, leading over trailing
MagRatio(ktime, kmag, ltime, lmag) ==
    IF ktime < ltime
    THEN <<Abs(kmag), Abs(lmag)>>
    ELSE <<Abs(lmag), Abs(kmag)>>

\* line 150: the pair's relative time delay
PairDelay(ktime, ltime) == Abs(ktime - ltime)

UpdateMinFirstOnly(cmin_delay, d) == IF cmin_delay < 0 THEN d ELSE cmin_delay

\* lines 153-154: the running minimum of the sample's pair delays
UpdateMin(cmin_delay, d) ==
    IF cmin_delay < 0 \/ d < cmin_delay THEN d ELSE cmin_delay

\* line 138: range(k + 1, ...), the first partner of image k
FirstPartnerSelf(k) == k

FirstPartner(k) == k + 1

\* lines 138-154: for l in range(k + 1, len(dat[i][j]))
RECURSIVE PairLoop(_, _, _, _)
PairLoop(sample, k, l, st) ==
    IF l > Len(sample) THEN st
    ELSE LET ktime == sample[k][4]
             kmag  == sample[k][3]
             ltime == sample[l][4]
             lmag  == sample[l][3]
         IN  PairLoop(sample, k, l + 1,
                 [st EXCEPT
                    !.pair_mags = Append(@, MagRatio(ktime, kmag, ltime, lmag)),
                    !.pair_delays = Append(@, PairDelay(ktime, ltime)),
                    !.cmin_delay = UpdateMin(@, PairDelay(ktime, ltime))])

\* lines 128-154: for k in range(1, len(dat[i][j]))
RECURSIVE ImageLoop(_, _, _)
ImageLoop(sample, k, st) ==
    IF k > Len(sample) THEN st
    ELSE ImageLoop(sample, k + 1,
             PairLoop(sample, k, FirstPartner(k),
                 [st EXCEPT
                    !.lens_mag = @ + Abs(sample[k][3]),
                    !.image_delays = Append(@, sample[k][4]),
                    !.image_mags = Append(@, sample[k][3])]))

\* lines 122-157: one sample dat[i][j]
ProcessSample(sample, st) ==
    LET s0 == [st EXCEPT !.num_images = Append(@, sample[1][1]),
                         !.lens_mag = 0,
                         !.cmin_delay = -1]
        s1 == ImageLoop(sample, 2, s0)
    IN  [s1 EXCEPT !.total_mag = Append(@, s1.lens_mag),
                   !.min_delays = Append(@, s1.cmin_delay)]

\* lines 120-121: for i in range(0, tot_samps): for j in range(0, len(dat[i]))
RECURSIVE SampleLoop(_, _, _)
SampleLoop(samples, n, st) ==
    IF n > Len(samples) THEN st
    ELSE SampleLoop(samples, n + 1, ProcessSample(samples[n], st))

\* lines 109-157 of process_dat
Lists(d) ==
    SampleLoop(Flatten(d), 1,
        [num_images |-> <<>>, total_mag |-> <<>>, pair_mags |-> <<>>,
         pair_delays |-> <<>>, image_delays |-> <<>>, image_mags |-> <<>>,
         min_delays |-> <<>>, lens_mag |-> 0, cmin_delay |-> -1])

\* line 200: list.sort(), ascending
RECURSIVE Insert(_, _)
Insert(x, s) ==
    IF s = <<>> THEN <<x>>
    ELSE IF x <= s[1] THEN <<x>> \o s
    ELSE <<s[1]>> \o Insert(x, Tail(s))

RECURSIVE SortAsc(_)
SortAsc(s) == IF s = <<>> THEN <<>> ELSE Insert(s[1], SortAsc(Tail(s)))

\* lines 209-212: num_below after the inner loop for day `day`; `old` is
\* the value num_below had before the loop, -1 while it is unbound.
\* j is the 0-based index of the first element that exceeds the day.
RECURSIVE NumBelow(_, _, _, _)
NumBelow(sorted_min_delays, day, j, old) ==
    IF j >= Len(sorted_min_delays) THEN old
    ELSE IF sorted_min_delays[j + 1] > day THEN j
    ELSE NumBelow(sorted_min_delays, day, j + 1, old)

\* lines 205-215: the list percent_below; raised is TRUE when line 215
\* reads num_below before any assignment (UnboundLocalError)
RECURSIVE CdfLoop(_, _, _, _)
CdfLoop(sorted_min_delays, day, num_below, acc) ==
    IF day > MaxDay THEN [raised |-> FALSE, percent_below |-> acc]
    ELSE LET nb == NumBelow(sorted_min_delays, day, 0, num_below)
         IN  IF nb = -1 THEN [raised |-> TRUE, percent_below |-> acc]
             ELSE CdfLoop(sorted_min_delays, day + 1, nb,
                          Append(acc, <<nb, Len(sorted_min_delays)>>))

AggInit ==
    /\ folder = <<>>
    /\ an_dat = <<>>
    /\ an_pc = "idle"
    /\ num_images = <<>>
    /\ total_mag = <<>>
    /\ pair_mags = <<>>
    /\ pair_delays = <<>>
    /\ image_delays = <<>>
    /\ image_mags = <<>>
    /\ min_delays = <<>>
    /\ percent_below = <<>>
    /\ global_stats = <<>>

AggIdle ==
    /\ folder = <<>>
    /\ an_dat = <<>>
    /\ an_pc = "off"
    /\ num_images = <<>>
    /\ total_mag = <<>>
    /\ pair_mags = <<>>
    /\ pair_delays = <<>>
    /\ image_delays = <<>>
    /\ image_mags = <<>>
    /\ min_delays = <<>>
    /\ percent_below = <<>>
    /\ global_stats = <<>>

aggOutputs == <<an_dat, an_pc, num_images, total_mag, pair_mags, pair_delays,
                image_delays, image_mags, min_delays, percent_below,
                global_stats>>

EmptySample == <<<<0, zsrc, 0, 0>>>>

\* Before analyzer.py starts, a .npy file of the folder gains one more
\* element, holding one sample without image rows so far.  The folder holds
\* either one sample per element or all samples in one element.
EnvNewGroup ==
    /\ an_pc = "idle"
    /\ Len(Flatten(folder)) < MaxSamples
    /\ Len(Flatten(folder)) = Len(folder)
    /\ folder' = Append(folder, <<EmptySample>>)
    /\ UNCHANGED aggOutputs
    /\ UNCHANGED <<samplerVars, driverVars, ellipVars, splitVars, genVars>>

\* Before analyzer.py starts, the last element gains one more sample.
EnvNewSample ==
    /\ an_pc = "idle"
    /\ Len(folder) = 1
    /\ Len(Flatten(folder)) < MaxSamples
    /\ folder' = [folder EXCEPT ![Len(folder)] = Append(@, EmptySample)]
    /\ UNCHANGED aggOutputs
    /\ UNCHANGED <<samplerVars, driverVars, ellipVars, splitVars, genVars>>

\* Before analyzer.py starts, the last sample gains one more image row and
\* its header counts it.
EnvNewImage ==
    /\ an_pc = "idle"
    /\ folder # <<>>
    /\ TotalImageRows(folder) < MaxTotalImages
    /\ LET g == Len(folder)
           j == Len(folder[g])
       IN  /\ NumImageRows(folder[g][j]) < MaxImgs
           /\ \E row \in ImageRows :
                folder' = [folder EXCEPT ![g][j] =
                    Append([@ EXCEPT ![1][1] = @ + 1], row)]
    /\ UNCHANGED aggOutputs
    /\ UNCHANGED <<samplerVars, driverVars, ellipVars, splitVars, genVars>>

\* load_dat(), lines 56-68: every element of every .npy array is appended
load_dat(d, files) == d \o files

\* process_dat(), lines 105-215: the lists, the lines of global_stats.dat
\* and the CDF
process_dat(d) ==
    LET r == Lists(d)
        \* lines 199-200: sorted_min_delays and min_delays are one list,
        \* which sort() orders in place
        sorted_min_delays == SortAsc(r.min_delays)
        cdf == CdfLoop(sorted_min_delays, 1, -1, <<>>)
    IN  [num_images |-> r.num_images, total_mag |-> r.total_mag,
         pair_mags |-> r.pair_mags, pair_delays |-> r.pair_delays,
         image_delays |-> r.image_delays, image_mags |-> r.image_mags,
         min_delays |-> sorted_min_delays,
         \* lines 168-171
         global_stats |-> <<Len(d), SumSeq(r.num_images), Len(r.pair_delays)>>,
         percent_below |-> cdf.percent_below,
         raised |-> cdf.raised]

\* main(), lines 46-48: load_dat() then process_dat()
AnalyzerMain ==
    /\ an_pc = "idle"
    /\ an_dat' = load_dat(an_dat, folder)
    /\ \E res \in {process_dat(load_dat(an_dat, folder))} :
        /\ num_images' = res.num_images
        /\ total_mag' = res.total_mag
        /\ pair_mags' = res.pair_mags
        /\ pair_delays' = res.pair_delays
        /\ image_delays' = res.image_delays
        /\ image_mags' = res.image_mags
        /\ min_delays' = res.min_delays
        /\ global_stats' = res.global_stats
        /\ percent_below' = res.percent_below
        /\ an_pc' = IF res.raised THEN "UnboundLocalError" ELSE "done"
    /\ UNCHANGED folder
    /\ UNCHANGED <<samplerVars, driverVars, ellipVars, splitVars, genVars>>

-----------------------------------------------------------------------------
(* Ellipticity generators: gen_ellip of gprofile2.py (lines 309-321) and   *)
(* of generator.py (lines 197-209).  Ellipticities are in hundredths.      *)

Generators == {"gprofile2", "generator"}

EllipMax == 90     \* .9

\* values np.random.normal(mean, disp) may return
Candidates == {-16, 0, 1, 30, 89, 90, 91, 130}

\* gprofile2.py line 316: while ellip <= 0 or ellip >= .9
RetryGprofile2(e) == e <= 0 \/ e >= EllipMax

\* generator.py line 204: while ellip < 0 or ellip > .9
RetryGenerator(e) == e < 0 \/ e > EllipMax

Retry(g, e) == IF g = "gprofile2" THEN RetryGprofile2(e) ELSE RetryGenerator(e)

EllipInit ==
    /\ e_pc = [g \in Generators |-> "idle"]
    /\ ellip = [g \in Generators |-> 0]

EllipIdle ==
    /\ e_pc = [g \in Generators |-> "off"]
    /\ ellip = [g \in Generators |-> 0]

\* gen_ellip is called: ellip = -1.0
EllipCall(g) ==
    /\ e_pc[g] \in {"idle", "returned"}
    /\ ellip' = [ellip EXCEPT ![g] = -100]
    /\ e_pc' = [e_pc EXCEPT ![g] = "while"]
    /\ UNCHANGED <<samplerVars, driverVars, aggVars, splitVars, genVars>>

\* the loop condition holds: one more draw
EllipDraw(g) ==
    /\ e_pc[g] = "while"
    /\ Retry(g, ellip[g])
    /\ \E c \in Candidates : ellip' = [ellip EXCEPT ![g] = c]
    /\ UNCHANGED e_pc
    /\ UNCHANGED <<samplerVars, driverVars, aggVars, splitVars, genVars>>

\* the loop condition fails: return ellip
EllipReturn(g) ==
    /\ e_pc[g] = "while"
    /\ ~Retry(g, ellip[g])
    /\ e_pc' = [e_pc EXCEPT ![g] = "returned"]
    /\ UNCHANGED ellip
    /\ UNCHANGED <<samplerVars, driverVars, aggVars, splitVars, genVars>>

-----------------------------------------------------------------------------
(* splitter.py: python splitter.py {galaxy list} {number of output files}. *)
(* The script has no functions; its statements run top to bottom.          *)

MaxLines == 4    \* galaxy lists of 0..MaxLines lines are explored
MaxOut   == 3    \* numbers of output files 1..MaxOut are explored

\* contents a line of the galaxy list may have
GalLines == {"lens sie 100", "lens sie 200"}

\* the lists of at most n lines
RECURSIVE ListsUpTo(_)
ListsUpTo(n) ==
    IF n = 0 THEN {<<>>}
    ELSE ListsUpTo(n - 1) \cup [1..n -> GalLines]

\* an element of sys.argv: the str that spells the number n
ArgvStr(n) == [type |-> "str", value |-> n]

\* int / x and x - 1 are defined for a number x, not for a str
IsNumber(x) == x.type = "int"

SplitInit ==
    /\ list_file \in ListsUpTo(MaxLines)
    /\ num_out \in {ArgvStr(n) : n \in 1..MaxOut}
    /\ sp_pc = "read"
    /\ gals = <<>>
    /\ master_folder = FALSE
    /\ out_files = <<>>

SplitIdle ==
    /\ list_file = <<>>
    /\ num_out = ArgvStr(1)
    /\ sp_pc = "off"
    /\ gals = <<>>
    /\ master_folder = FALSE
    /\ out_files = <<>>

\* lines 27-37: the arguments are taken as they are, the list is read
ReadList ==
    /\ sp_pc = "read"
    /\ gals' = gals \o list_file
    /\ sp_pc' = "split"
    /\ UNCHANGED <<list_file, num_out, master_folder, out_files>>
    /\ UNCHANGED <<samplerVars, driverVars, aggVars, ellipVars, genVars>>

\* line 41: math.floor(num_gals / num_out)
SplitSize(num_gals, n) == num_gals \div n

\* lines 56-58, the file of loop index i = file_i (from 0): gals[i + j] for
\* j in range(0, split_size)
ClippedFile(g, file_i, split_size) ==
    [j \in 1..split_size |-> g[file_i + (j - 1) + 1]]

\* lines 65-67, the last file: gals[j] for j in range(current_pos, len(gals))
LastFile(g, current_pos) == SubSeq(g, current_pos + 1, Len(g))

\* lines 51-68: current_pos is i * split_size when file i has been written
SplitFiles(g, n) ==
    LET split_size == SplitSize(Len(g), n)
    IN  [k \in 1..n |->
            IF k < n THEN ClippedFile(g, k - 1, split_size)
            ELSE LastFile(g, (n - 1) * split_size)]

\* lines 40-68.  num_out is the str of line 28: the division of line 41
\* raises TypeError before the folder or any file is made.
Split ==
    /\ sp_pc = "split"
    /\ IF IsNumber(num_out)
       THEN /\ master_folder' = TRUE
            /\ out_files' = SplitFiles(gals, num_out.value)
            /\ sp_pc' = "done"
       ELSE /\ sp_pc' = "TypeError"
            /\ UNCHANGED <<master_folder, out_files>>
    /\ UNCHANGED <<list_file, num_out, gals>>
    /\ UNCHANGED <<samplerVars, driverVars, aggVars, ellipVars, genVars>>

-----------------------------------------------------------------------------
(* generator.py: python generator.py {number of galaxies} {output} {seed}. *)
(* disp_bins() turns the densities into whole numbers of samples per bin   *)
(* and fills disp_list; gen_disp() reads disp_list from front to back.     *)
(* random.randrange picks any position; of a value drawn by random.uniform *)
(* the model keeps the bin it was drawn in.                                *)

MaxGals == 4    \* galaxy counts 0..MaxGals are explored

\* round(x) of a float x >= 0: the nearest integer, the even one of two
Round(q) ==
    LET whole == q[1] \div q[2]
        rest  == q[1] % q[2]
    IN  IF 2 * rest < q[2] THEN whole
        ELSE IF 2 * rest > q[2] THEN whole + 1
        ELSE IF whole % 2 = 0 THEN whole ELSE whole + 1

\* lines 146-148: freqs[i] = round(freqs[i] * correction)
ScaledFreqs(d, n) ==
    LET total_freq == SumSeq(d)
        correction == <<n, total_freq>>
    IN  [k \in 1..Len(d) |-> Round(RMul(<<d[k], 1>>, correction))]

SumReachedOrPassed(sum_freq_samps, n) == sum_freq_samps >= n

\* line 154: sum_freq_samps == num_gals
SumReached(sum_freq_samps, n) == sum_freq_samps = n

\* lines 165-169: freqs[i] values of bin i, bin after bin
RECURSIVE FillList(_, _)
FillList(f, k) ==
    IF k > Len(f) THEN <<>>
    ELSE [j \in 1..f[k] |-> k] \o FillList(f, k + 1)

GenInit ==
    /\ g_num_gals \in 0..MaxGals
    /\ \E n \in 1..MaxBins : g_density \in [1..n -> Densities]
    /\ g_pc = "disp_bins"
    /\ g_freqs = <<>>
    /\ disp_list = <<>>
    /\ current_disp = 0
    /\ g_returned = <<>>

GenIdle ==
    /\ g_num_gals = 0
    /\ g_density = <<1>>
    /\ g_pc = "off"
    /\ g_freqs = <<>>
    /\ disp_list = <<>>
    /\ current_disp = 0
    /\ g_returned = <<>>

\* disp_bins(), lines 134-148
GenScale ==
    /\ g_pc = "disp_bins"
    /\ g_freqs' = ScaledFreqs(g_density, g_num_gals)
    /\ g_pc' = "while"
    /\ UNCHANGED <<g_num_gals, g_density, disp_list, current_disp,
                   g_returned>>
    /\ UNCHANGED <<samplerVars, driverVars, aggVars, ellipVars, splitVars>>

\* disp_bins(), lines 152-162: one pass of the while loop
GenAdjust ==
    /\ g_pc = "while"
    /\ \A sum_freq_samps \in {SumSeq(g_freqs)} :
        IF SumReached(sum_freq_samps, g_num_gals)
        THEN /\ g_pc' = "fill"
             /\ UNCHANGED g_freqs
        ELSE /\ g_pc' = g_pc
             /\ \E pos \in 1..Len(g_freqs) :
                  IF sum_freq_samps > g_num_gals
                  THEN IF g_freqs[pos] > 0
                       THEN g_freqs' = [g_freqs EXCEPT ![pos] = @ - 1]
                       ELSE g_freqs' = g_freqs
                  ELSE g_freqs' = [g_freqs EXCEPT ![pos] = @ + 1]
    /\ UNCHANGED <<g_num_gals, g_density, disp_list, current_disp,
                   g_returned>>
    /\ UNCHANGED <<samplerVars, driverVars, aggVars, ellipVars, splitVars>>

\* disp_bins(), lines 165-169
GenFill ==
    /\ g_pc = "fill"
    /\ disp_list' = disp_list \o FillList(g_freqs, 1)
    /\ g_pc' = "main"
    /\ UNCHANGED <<g_num_gals, g_density, g_freqs, current_disp, g_returned>>
    /\ UNCHANGED <<samplerVars, driverVars, aggVars, ellipVars, splitVars>>

\* main(), lines 91-93, one pass of the loop: generate_gal() calls
\* gen_disp(), lines 180-189; disp_list[current_disp] raises IndexError
\* past the end of the list
GenGal ==
    /\ g_pc = "main"
    /\ Len(g_returned) < g_num_gals
    /\ IF current_disp < Len(disp_list)
       THEN /\ g_returned' = Append(g_returned,
                                <<current_disp, disp_list[current_disp + 1]>>)
            /\ current_disp' = current_disp + 1
            /\ g_pc' = g_pc
       ELSE /\ g_pc' = "IndexError"
            /\ UNCHANGED <<current_disp, g_returned>>
    /\ UNCHANGED <<g_num_gals, g_density, g_freqs, disp_list>>
    /\ UNCHANGED <<samplerVars, driverVars, aggVars, ellipVars, splitVars>>

\* main(), line 94: the loop has made num_gals passes
GenClose ==
    /\ g_pc = "main"
    /\ Len(g_returned) = g_num_gals
    /\ g_pc' = "done"
    /\ UNCHANGED <<g_num_gals, g_density, g_freqs, disp_list, current_disp,
                   g_returned>>
    /\ UNCHANGED <<samplerVars, driverVars, aggVars, ellipVars, splitVars>>

-----------------------------------------------------------------------------
(* Specifications                                                          *)

SamplerStart ==
    SamplerInit /\ DriverIdle /\ AggIdle /\ EllipIdle /\ SplitIdle /\ GenIdle
SamplerNext == Seed \/ DispBins \/ GenDisp \/ Rerun
SpecSampler == SamplerStart /\ [][SamplerNext]_vars

Init ==
    SamplerIdle /\ DriverInit /\ AggIdle /\ EllipIdle /\ SplitIdle /\ GenIdle
Next ==
    \/ ForNext
    \/ WhileTest
    \/ Attempt
    \/ RunGlaficMulti
    \/ RunGlaficSingle
    \/ CheckMult
    \/ WriteDat
    \/ Stats
    \/ Remove
    \/ SaveDat
Spec == Init /\ [][Next]_vars

\* The solver returns after every invocation (every step of main() that can
\* be taken is taken) and reports more than one image infinitely often.
SpecLive == Spec /\ WF_vars(Next) /\ SF_vars(RunGlaficMulti)

AggStart ==
    SamplerIdle /\ DriverIdle /\ AggInit /\ EllipIdle /\ SplitIdle /\ GenIdle
AggNext == EnvNewGroup \/ EnvNewSample \/ EnvNewImage \/ AnalyzerMain
SpecAgg == AggStart /\ [][AggNext]_vars

EllipStart ==
    SamplerIdle /\ DriverIdle /\ AggIdle /\ EllipInit /\ SplitIdle /\ GenIdle
EllipNext ==
    \E g \in Generators : EllipCall(g) \/ EllipDraw(g) \/ EllipReturn(g)
SpecEllip == EllipStart /\ [][EllipNext]_vars

SplitStart ==
    SamplerIdle /\ DriverIdle /\ AggIdle /\ EllipIdle /\ SplitInit /\ GenIdle
SplitNext == ReadList \/ Split
SpecSplit == SplitStart /\ [][SplitNext]_vars

GenStart ==
    SamplerIdle /\ DriverIdle /\ AggIdle /\ EllipIdle /\ SplitIdle /\ GenInit
GenNext == GenScale \/ GenAdjust \/ GenFill \/ GenGal \/ GenClose
SpecGen == GenStart /\ [][GenNext]_vars

-----------------------------------------------------------------------------
(* Properties of the Distribution Sampler (SpecSampler)                    *)

TableBuilt == s_pc = "gen_disp"

\* C1: once disp_bins() has built the table for a bin count N >= 1, the
\* table has N entries, the cumulative frequencies are non-decreasing from
\* the first bin to the last, and the last entry equals exactly 1.
C1_CumulativeTable ==
    TableBuilt =>
        /\ Len(freqs) = num_bins
        /\ \A k \in 1..(Len(freqs) - 1) : RLeq(freqs[k], freqs[k + 1])
        /\ freqs[Len(freqs)] = <<1, 1>>

\* a table of three bins whose first two cumulative entries lie below 1
C1_Witness ==
    /\ TableBuilt
    /\ num_bins = 3
    /\ density[2] < density[1]
    /\ RLt(freqs[1], freqs[2])
    /\ RLt(freqs[2], freqs[3])

\* C9: two runs with the same seed (seed the stream, build the table, draw)
\* return the same dispersions, draw for draw.
C9_SameSeedSameDraws ==
    run = 2 =>
        \A n \in 1..Min(Len(draws), Len(prev_draws)) : draws[n] = prev_draws[n]

\* the repeat has drawn as often as the first run, from a process that
\* started in another stream state, and not every draw is the same number
C9_Witness ==
    /\ run = 2
    /\ Len(draws) >= 2
    /\ Len(draws) = Len(prev_draws)
    /\ draws[1] # draws[2]

\* a step of gen_disp(): one more dispersion has been returned
Drawn == s_pc = "gen_disp" /\ Len(draws') = Len(draws) + 1

InBin(sigma, k) ==
    /\ RLeq(left_bounds[k], sigma)
    /\ RLeq(sigma, RAdd(left_bounds[k], bin_size))

\* C14: the uniform number u of a gen_disp() call lies in [0, 1); the call
\* returns a value between the left bound and the left bound + bin width
\* of the first bin (lowest index) whose cumulative value is >= u; every
\* drawn dispersion lies in [sigma_min, sigma_max].
C14_FirstBinAtOrAboveU ==
    /\ [][Drawn =>
            \A u \in {Random(rng)} :
                /\ RLeq(<<0, 1>>, u)
                /\ RLt(u, <<1, 1>>)
                /\ \E k \in 1..Len(freqs) :
                      /\ RLeq(u, freqs[k])
                      /\ \A j \in 1..(k - 1) : RLt(freqs[j], u)
                      /\ InBin(draws'[Len(draws')], k)]_vars
    /\ [](\A n \in 1..Len(draws) :
              /\ RLeq(<<sigma_min, 1>>, draws[n])
              /\ RLeq(draws[n], <<sigma_max, 1>>))

\* of three bins with growing cumulative values the first draw fell
\* strictly inside the second and a later draw strictly inside the first
C14_Witness ==
    /\ TableBuilt
    /\ num_bins = 3
    /\ RLt(freqs[1], freqs[2])
    /\ RLt(freqs[2], freqs[3])
    /\ Len(draws) >= 2
    /\ RLt(left_bounds[2], draws[1])
    /\ RLt(draws[1], left_bounds[3])
    /\ \E n \in 2..Len(draws) : RLt(draws[n], left_bounds[2])

\* C15: when u exceeds every cumulative entry that disp_bins() accumulated
\* (the entries below the last, which is set to 1), gen_disp() returns a
\* value within the range of the last bin; no call returns the initial 0
\* or any other value outside [sigma_min, sigma_max].
C15_LastBinWhenAboveAll ==
    /\ [][Drawn =>
            \A u \in {Random(rng)} :
                (\A k \in 1..(Len(freqs) - 1) : RLt(freqs[k], u)) =>
                    InBin(draws'[Len(draws')], Len(freqs))]_vars
    /\ [](\A n \in 1..Len(draws) :
              /\ draws[n] # <<0, 1>>
              /\ ~RLt(draws[n], <<sigma_min, 1>>)
              /\ ~RLt(<<sigma_max, 1>>, draws[n]))

\* of several bins whose accumulated entries stay below 1 a draw fell
\* strictly inside the last
C15_Witness ==
    /\ TableBuilt
    /\ num_bins >= 2
    /\ RLt(freqs[num_bins - 1], <<1, 1>>)
    /\ \E n \in 1..Len(draws) : RLt(left_bounds[num_bins], draws[n])

-----------------------------------------------------------------------------
(* Properties of the Trial Driver (Spec, SpecLive)                         *)

\* C2: every record of dat is a solver output of several rows whose header
\* declares more than one image.
C2_OnlyMultiplyImaged ==
    \A n \in 1..Len(dat) : dat[n].ndim = 2 /\ dat[n].data[1][1] > 1

\* a record was kept after an attempt with at most one image was rejected
C2_Witness ==
    /\ Len(dat) >= 1
    /\ rejected >= 1
    /\ pc = "for"

\* C3: dat never holds more than num_samp records, holds exactly num_samp
\* at Complete, and holds one record per accepted attempt (the record of
\* the attempt just accepted is appended by the next write_dat()).
C3_OneRecordPerAccepted ==
    /\ Len(dat) <= num_samp
    /\ Len(dat) = i
    /\ Complete => Len(dat) = num_samp /\ accepted = num_samp
    /\ accepted = Len(dat) +
         (IF good_run /\ pc \in {"while", "write_dat"} THEN 1 ELSE 0)

\* a run of at least two samples is Complete after a rejected attempt
C3_Witness ==
    /\ Complete
    /\ num_samp >= 2
    /\ rejected >= 1
    /\ Len(raw_data) = num_samp

\* C4: the Trial Driver eventually reaches Complete, for any requested
\* sample count, when the solver always returns and reports more than one
\* image infinitely often.
C4_EventuallyComplete == <>Complete

\* the attempt whose trials += 1 has run and whose check_mult() has not
InFlight == IF pc \in {"run_glafic", "check_mult"} THEN 1 ELSE 0

\* C16: an attempt whose solver output declares zero or one image (a
\* single header row included) is filtered out without an error: check_mult
\* goes back to the while test with good_run False, nothing is appended to
\* dat, the accepted count is unchanged, write_dat() is only reached with an
\* output of more than one image, and only trials has grown, by exactly one
\* in the attempt; trials always equals accepted plus rejected attempts
\* (plus the attempt in progress).
C16_RejectedAttemptFiltered ==
    /\ [](trials = accepted + rejected + InFlight)
    /\ [](pc = "write_dat" => dat_file[1][1] > 1)
    /\ [][trials' = trials \/ (pc = "attempt" /\ trials' = trials + 1)]_vars
    /\ [][(pc = "check_mult" /\ dat_file[1][1] <= 1) =>
            /\ pc' = "while"
            /\ good_run' = FALSE
            /\ dat' = dat
            /\ i' = i
            /\ accepted' = accepted
            /\ rejected' = rejected + 1
            /\ trials' = trials]_vars

\* an output of the header row alone has just been rejected, after another
\* rejected attempt, and the loop is back at its while test
C16_Witness ==
    /\ pc = "while"
    /\ good_run = FALSE
    /\ rejected >= 2
    /\ Len(dat_file) = 1
    /\ trials = accepted + rejected
    /\ Len(dat) = accepted

\* C17 as stated: when an attempt begins, the input file and the output
\* file of the attempt before it have been deleted.
C17_FilesDeletedAfterEachAttempt ==
    pc = "attempt" => (config_file = FALSE /\ dat_file = <<>>)

\* C17, amended: within an attempt the input file is written before the
\* solver is invoked and the output file exists before it is read; the two
\* files are not deleted between attempts (the next attempt overwrites the
\* same names) and are both deleted once, after the loop, before save_dat.
C17_FilesOverwrittenRemovedOnce ==
    /\ pc = "run_glafic" => config_file
    /\ pc \in {"check_mult", "write_dat"} => (config_file /\ dat_file # <<>>)
    /\ (trials >= 1 /\ pc \in {"for", "while", "attempt", "stats", "remove"})
          => (config_file /\ dat_file # <<>>)
    /\ (trials = 0 /\ pc \in {"for", "while", "attempt", "stats"})
          => (config_file = FALSE /\ dat_file = <<>>)
    /\ pc \in {"save_dat", "done"} => (config_file = FALSE /\ dat_file = <<>>)

\* a further attempt begins while the files of a rejected one still exist
C17_Witness ==
    /\ pc = "attempt"
    /\ rejected >= 1
    /\ config_file
    /\ dat_file # <<>>

-----------------------------------------------------------------------------
(* Properties of the Aggregator and the Reporter (SpecAgg)                 *)

Processed == an_pc \in {"done", "UnboundLocalError"}

Choose2(k) == (k * (k - 1)) \div 2

\* the unordered pairs of distinct image rows of a sample, as row indexes
ImagePairs(sample) ==
    {p \in (2..Len(sample)) \X (2..Len(sample)) : p[1] < p[2]}

DelayOf(sample, p) == Abs(sample[p[1]][4] - sample[p[2]][4])

\* the number of unordered pairs within the first n samples of S
PairsWithin(S, n) == SumSeq([m \in 1..n |-> Choose2(NumImageRows(S[m]))])

\* the place of the statistic of pair p of sample n in the flat lists:
\* after the pairs of the earlier samples, pairs in the order of their rows
PairPlace(S, n, p) ==
    PairsWithin(S, n - 1)
    + Cardinality({q \in ImagePairs(S[n]) :
                     q[1] < p[1] \/ (q[1] = p[1] /\ q[2] <= p[2])})

\* C5: for two images of one sample with different time delays the lists
\* hold pair_delay = |t_i - t_j| and mag_ratio = |magnification of the
\* image with the smaller delay| / |magnification of the image with the
\* larger delay|, whichever of the two comes first in the sample.
C5_PairStatistics ==
    Processed =>
        \A S \in {Flatten(an_dat)} :
        \A n \in 1..Len(S) : \A p \in ImagePairs(S[n]) :
            LET a == S[n][p[1]]
                b == S[n][p[2]]
                leading  == IF a[4] < b[4] THEN a ELSE b
                trailing == IF a[4] < b[4] THEN b ELSE a
            IN  a[4] # b[4] =>
                  \A place \in {PairPlace(S, n, p)} :
                    /\ place <= Len(pair_delays)
                    /\ place <= Len(pair_mags)
                    /\ pair_delays[place] = Abs(a[4] - b[4])
                    /\ REq(pair_mags[place],
                           <<Abs(leading[3]), Abs(trailing[3])>>)

\* the image with delay 12 and magnification 0.5 comes first, the image with
\* delay 5 and magnification -2.0 second: pair_delay 7, mag_ratio 4
C5_Witness ==
    /\ Processed
    /\ Flatten(an_dat) =
         << <<<<2, zsrc, 0, 0>>, <<0, 0, 1, 12>>, <<0, 0, -4, 5>>>> >>
    /\ pair_delays = <<7>>
    /\ REq(pair_mags[1], <<4, 1>>)

\* C12 as stated: for two images of one sample with exactly equal time
\* delays the leading image is the one that comes earlier in the sample:
\* mag_ratio = |magnification of the earlier record| / |magnification of
\* the later record|.
C12_TieEarlierRecordLeads ==
    Processed =>
        \A S \in {Flatten(an_dat)} :
        \A n \in 1..Len(S) : \A p \in ImagePairs(S[n]) :
            LET earlier == S[n][p[1]]
                later   == S[n][p[2]]
            IN  earlier[4] = later[4] =>
                  \A place \in {PairPlace(S, n, p)} :
                    /\ place <= Len(pair_mags)
                    /\ REq(pair_mags[place],
                           <<Abs(earlier[3]), Abs(later[3])>>)

\* C12, amended: for two images of one sample with exactly equal time
\* delays the image that comes later in the sample is taken as leading:
\* mag_ratio = |magnification of the later record| / |magnification of the
\* earlier record|, and pair_delay = 0.
C12_TieLaterRecordLeads ==
    Processed =>
        \A S \in {Flatten(an_dat)} :
        \A n \in 1..Len(S) : \A p \in ImagePairs(S[n]) :
            LET earlier == S[n][p[1]]
                later   == S[n][p[2]]
            IN  earlier[4] = later[4] =>
                  \A place \in {PairPlace(S, n, p)} :
                    /\ place <= Len(pair_mags)
                    /\ place <= Len(pair_delays)
                    /\ pair_delays[place] = 0
                    /\ REq(pair_mags[place],
                           <<Abs(later[3]), Abs(earlier[3])>>)

\* two images of delay 5: magnification -2.0 first, magnification 1.0
\* second; the recorded ratio is 1.0 / 2.0
C12_Witness ==
    /\ Processed
    /\ Flatten(an_dat) =
         << <<<<2, zsrc, 0, 0>>, <<0, 0, -4, 5>>, <<0, 0, 2, 5>>>> >>
    /\ pair_delays = <<0>>
    /\ REq(pair_mags[1], <<1, 2>>)

Occurrences(s, v) == Cardinality({n \in 1..Len(s) : s[n] = v})

\* the delays between two image rows of one sample, over all samples of S
DelaysWithin(S) ==
    UNION {{DelayOf(S[n], p) : p \in ImagePairs(S[n])} : n \in 1..Len(S)}

\* C6: one pair statistic per unordered pair of distinct images of a sample
\* and none across samples: the lists and the reported pair count have
\* sum over the samples of C(k, 2) entries, and every delay value occurs in
\* pair_delays as often as it occurs among the pairs within the samples.
C6_PairCount ==
    Processed =>
        \A S \in {Flatten(an_dat)} :
        \A expected \in {PairsWithin(S, Len(S))} :
            /\ Len(pair_delays) = expected
            /\ Len(pair_mags) = expected
            /\ global_stats[3] = expected
            /\ \A v \in DelaysWithin(S) \cup {pair_delays[n] : n \in 1..Len(pair_delays)} :
                  Occurrences(pair_delays, v) =
                      SumSeq([n \in 1..Len(S) |->
                          Cardinality({p \in ImagePairs(S[n]) :
                                         DelayOf(S[n], p) = v})])

\* samples with 2, 3 and 1 image rows: 1 + 3 + 0 = 4 pairs
C6_Witness ==
    /\ Processed
    /\ \A S \in {Flatten(an_dat)} :
        /\ Len(S) = 3
        /\ NumImageRows(S[1]) = 2
        /\ NumImageRows(S[2]) = 3
        /\ NumImageRows(S[3]) = 1
    /\ global_stats[3] = 4
    /\ Len(pair_delays) = 4

\* C7: every mag_ratio is > 0, every pair_delay is >= 0, and the minimum
\* recorded for a sample with at least 2 images is <= every pair delay of
\* that sample (min_delays holds the recorded minima, sorted by line 200).
C7_PositiveRatiosAndMinimum ==
    Processed =>
        \A S \in {Flatten(an_dat)} :
        \A recorded \in {Lists(an_dat).min_delays} :
            /\ \A n \in 1..Len(pair_mags) :
                  pair_mags[n][1] > 0 /\ pair_mags[n][2] > 0
            /\ \A n \in 1..Len(pair_delays) : pair_delays[n] >= 0
            /\ min_delays = SortAsc(recorded)
            /\ \A n \in 1..Len(S) :
                  NumImageRows(S[n]) >= 2 =>
                      \A p \in ImagePairs(S[n]) :
                          recorded[n] <= DelayOf(S[n], p)

\* a sample of three images whose first pair is 7 days apart and whose
\* second pair arrives together
C7_Witness ==
    /\ Processed
    /\ \A S \in {Flatten(an_dat)} :
        /\ Len(S) = 1
        /\ NumImageRows(S[1]) = 3
        /\ DelayOf(S[1], <<2, 3>>) = 7
        /\ DelayOf(S[1], <<2, 4>>) = 0
    /\ min_delays = <<0>>

HasPair(sample) == ImagePairs(sample) # {}

TrueMinDelay(sample) ==
    CHOOSE m \in {DelayOf(sample, p) : p \in ImagePairs(sample)} :
        \A p \in ImagePairs(sample) : m <= DelayOf(sample, p)

\* C10: for every day d in 1..30 the Reporter's value is (number of samples
\* whose minimum pair delay is below d) / (number of samples), for every
\* collection of per-sample minimum delays (every sample has one), also
\* when no minimum delay exceeds d.
C10_CdfIsFractionBelow ==
    Processed =>
        \A S \in {Flatten(an_dat)} :
            (Len(S) >= 1 /\ \A n \in 1..Len(S) : HasPair(S[n])) =>
                /\ an_pc = "done"
                /\ Len(percent_below) = MaxDay
                /\ \A d \in 1..MaxDay :
                      REq(percent_below[d],
                          <<Cardinality({n \in 1..Len(S) :
                                           TrueMinDelay(S[n]) < d}),
                            Len(S)>>)

\* C13: a sample without a pair of images has no minimum delay: min_delays
\* holds one entry per sample that has a pair and no negative stand-in, and
\* the Reporter's fractions count the samples that have a pair only, in the
\* numerator and in the denominator.
C13_NoMinimumIsAbsent ==
    Processed =>
        \A S \in {Flatten(an_dat)} :
        \A paired \in {Cardinality({n \in 1..Len(S) : HasPair(S[n])})} :
            /\ Len(min_delays) = paired
            /\ \A n \in 1..Len(min_delays) : min_delays[n] >= 0
            /\ \A d \in 1..Len(percent_below) :
                  /\ percent_below[d][2] = paired
                  /\ percent_below[d][1] <= paired

-----------------------------------------------------------------------------
(* Properties of the ellipticity generators (SpecEllip)                    *)

\* C8: every ellipticity returned by gen_ellip, of gprofile2.py and of
\* generator.py, lies strictly inside (0, 0.9).
C8_EllipStrictlyInside ==
    \A g \in Generators :
        e_pc[g] = "returned" => 0 < ellip[g] /\ ellip[g] < EllipMax

-----------------------------------------------------------------------------
(* Properties of splitter.py (SpecSplit)                                   *)

SplitEnded == sp_pc \in {"done", "TypeError"}

RECURSIVE Concat(_, _)
Concat(fs, k) == IF k > Len(fs) THEN <<>> ELSE fs[k] \o Concat(fs, k + 1)

\* C11: when the script has run on a list of L lines and a number n of
\* output files, there are n files; each of the first n - 1 holds the
\* floor(L / n) consecutive lines that start at the next unwritten
\* position, the last holds the remainder, and the files 000..n-1 put
\* together are the list: no line repeated, none lost.
C11_EveryLineInOneFile ==
    SplitEnded =>
        \A n \in {num_out.value} : \A size \in {Len(list_file) \div n} :
            /\ Len(out_files) = n
            /\ \A k \in 1..(n - 1) :
                  out_files[k] =
                      SubSeq(list_file, (k - 1) * size + 1, k * size)
            /\ out_files[n] =
                  SubSeq(list_file, (n - 1) * size + 1, Len(list_file))
            /\ Concat(out_files, 1) = list_file

-----------------------------------------------------------------------------
(* Properties of generator.py (SpecGen)                                    *)

BinsDone == g_pc \in {"main", "done"}

\* C18: for every num_gals >= 0 disp_bins() ends with one count per bin,
\* every count >= 0, the counts summing to exactly num_gals, and disp_list
\* holding exactly num_gals values; the gen_disp() calls of main() read the
\* positions 0, 1, 2, ... of the list in order, each once, never past the
\* end, and there are num_gals of them when main() is done.
C18_CountsSumToNumGals ==
    /\ BinsDone =>
          /\ Len(g_freqs) = Len(g_density)
          /\ \A k \in 1..Len(g_freqs) : g_freqs[k] >= 0
          /\ SumSeq(g_freqs) = g_num_gals
          /\ Len(disp_list) = g_num_gals
    /\ g_pc # "IndexError"
    /\ current_disp = Len(g_returned)
    /\ current_disp <= g_num_gals
    /\ \A n \in 1..Len(g_returned) : g_returned[n] = <<n - 1, disp_list[n]>>
    /\ g_pc = "done" => Len(g_returned) = g_num_gals

\* main() is done for 3 galaxies over 2 bins of equal density: both counts
\* were rounded from 1.5 to 2 and the loop took one sample away
C18_Witness ==
    /\ g_pc = "done"
    /\ g_num_gals = 3
    /\ g_density = <<1, 1>>
    /\ ScaledFreqs(g_density, g_num_gals) = <<2, 2>>
    /\ SumSeq(g_freqs) = 3
    /\ Len(g_returned) = 3

====
